---- MODULE Spec2Model ----
(***************************************************************************)
(* Model of colorust's MLT filtergraph conversion (src/src/mlt.rs and the  *)
(* filter parsers of src/src/ffmpeg.rs).                                   *)
(*                                                                         *)
(* Text is a sequence of tokens.  A token is an atomic run of characters:  *)
(* the markup pieces the code searches for, the two line-terminator        *)
(* characters, and opaque payload pieces (urls, numbers, tag text) that    *)
(* contain none of the markup characters.  Substring search and the        *)
(* regular expression of the rewriter are evaluated on token sequences.    *)
(***************************************************************************)
EXTENDS Integers, Sequences, FiniteSets, TLC

VARIABLES
    pc,               \* position in the function being run
    xml,              \* add_filtergraph_to_producers: the `xml` argument
    filter_strings,   \* the HashMap<String, String> (compiled, or given)
    delete_existing,  \* add_filtergraph_to_producers: flag
    append_filter,    \* add_filtergraph_to_producers: Option<String>
    lines,            \* the lines xml.lines() yielded
    output,           \* the Vec `output`
    origin,           \* history: for each element of output, the index of the
                      \* input line it copies, or 0 for an inserted line
    result,           \* the returned String (Option, None until returned)
    pass,             \* 1: first run; 2: re-run on the first run's result
    first_result,     \* the result of the first run (Option)
    entry,            \* get_filter_strings: the entry whose filters are compiled
    entry_filter_string, \* get_filter_strings: that entry's filter_string (Option)
    root,             \* the root node of the parsed document
    eidx,             \* get_filter_strings: index of the next entry of the loop
    property_node,    \* get_property_value: the `node` argument
    property_type,    \* get_property_value: the target type T
    property_value,   \* get_property_value: the returned Option (in a Some once
                      \* the function has returned, None before)
    filter_node,      \* TryFrom<&Node>: the `value` argument
    tried,            \* what the four try_from gave for it (Option, None
                      \* until they were called)
    self,             \* to_filter_string: the filter it is called on
    rendered,         \* to_filter_string: the returned String (Option)
    cli,              \* converter main: the parsed command line
    disk,             \* the files the converter names: path -> Option<content>
    disk_before,      \* history: disk when main started
    mlt,              \* converter main: the text of the input file (Option)
    doc,              \* converter main: the parsed Document (Option)
    insert_into,      \* converter main: the text to rewrite (Option)
    mlt_out,          \* converter main: the rewritten text (Option)
    completed,        \* history: the steps of main that returned normally
    failed,           \* history: the step of main that failed (Option)
    request_tx,       \* the request channel: Requests sent and not yet received
    response_rx,      \* the response channel: Responses sent and not yet received
    waiting_for_image, \* ColorustApp.waiting_for_image
    handling,         \* Thread::run: the Request being handled (Option)
    gui,              \* "running", or "panicked" once a send().unwrap() failed
    worker,           \* "running", or "panicked" once an unwrap() failed
    sent,             \* history: the Requests the GUI sent, in order
    taken,            \* history: how many Requests the worker has received
    answers,          \* history: the Responses the worker sent, in order, each
                      \* [request: index in sent, response: the Response]
    consumed,         \* history: how many Responses handle_events received
    lookups           \* history: the calls of get_url_from_producer so far, each
                      \* [entry: index of the entry, producer: the id looked up,
                      \*  url: the returned Option, panicked: the call panicked]

rewrite_vars == <<xml, delete_existing, append_filter, lines, output, origin,
                  result, pass, first_result>>
entry_vars == <<entry, entry_filter_string>>
compile_vars == <<root, eidx, lookups>>
property_vars == <<property_node, property_type, property_value>>
filter_vars == <<filter_node, tried, self, rendered>>
main_vars == <<cli, disk, disk_before, mlt, doc, insert_into, mlt_out, completed,
               failed>>
gui_vars == <<request_tx, response_rx, waiting_for_image, handling, gui, worker,
              sent, taken, answers, consumed>>
vars == <<pc, filter_strings, rewrite_vars, entry_vars, compile_vars, property_vars,
          filter_vars, main_vars, gui_vars>>

----------------------------------------------------------------------------
(* Option<T>: a sequence of length at most one. *)
None == <<>>
Some(v) == <<v>>
IsSome(o) == Len(o) = 1
Unwrap(o) == o[1]

Min(S) == CHOOSE x \in S : \A y \in S : x <= y
Max(S) == CHOOSE x \in S : \A y \in S : x >= y

(* Iterator::collect: the sequence with all its elements evaluated *)
Collect(f) == SubSeq(f, 1, Len(f))

SeqsUpTo(S, n) == UNION {[1..k -> S] : k \in 0..n}

----------------------------------------------------------------------------
(* Tokens *)
LF == "\n"
CR == "\r"
POPEN == "<property "
NAMEQ == "name=\""
QUOTE == "\""
GT == ">"
PCLOSE == "</property>"
COMMA == ","

(* str::contains(pat) *)
Contains(s, pat) ==
    \E i \in 1..(Len(s) - Len(pat) + 1) : \A k \in 1..Len(pat) : s[i + k - 1] = pat[k]

(* str::split_inclusive('\n'): pieces that keep their terminating LF; the
   empty string has no piece, and nothing follows a final LF. *)
PieceEnd(s, start) ==
    CHOOSE i \in start..Len(s) :
        /\ s[i] = LF \/ i = Len(s)
        /\ \A j \in start..(i - 1) : s[j] # LF
RECURSIVE SplitFrom(_, _)
SplitAt(s, start, end) == <<SubSeq(s, start, end)>> \o SplitFrom(s, end + 1)
SplitFrom(s, start) ==
    IF start > Len(s) THEN <<>> ELSE SplitAt(s, start, PieceEnd(s, start))
SplitInclusive(s) == SplitFrom(s, 1)

(* What str::lines() does to one piece: strip a final LF, and then a CR
   that preceded it; a piece without a final LF is left as it is. *)
LinesMap(piece) ==
    IF piece # <<>> /\ piece[Len(piece)] = LF
    THEN LET l == SubSeq(piece, 1, Len(piece) - 1)
         IN IF l # <<>> /\ l[Len(l)] = CR THEN SubSeq(l, 1, Len(l) - 1) ELSE l
    ELSE piece

(* str::lines(), collected *)
LinesOf(pieces) == Collect([i \in 1..Len(pieces) |-> LinesMap(pieces[i])])
Lines(s) == LinesOf(SplitInclusive(s))

(* [String]::join(sep) *)
RECURSIVE JoinFrom(_, _, _)
JoinFrom(ss, sep, i) ==
    IF i > Len(ss) THEN <<>>
    ELSE IF i = Len(ss) THEN ss[i]
    ELSE ss[i] \o sep \o JoinFrom(ss, sep, i + 1)
Join(ss, sep) == JoinFrom(ss, sep, 1)

----------------------------------------------------------------------------
(* The parsed document (roxmltree): a node has a tag name, the attributes
   the code reads (id, producer, name), its text and its element children.
   Attribute values and tag names are atomic strings; texts are token
   sequences. *)
Node(tag, id, producer, name, text, children) ==
    [tag |-> tag, id |-> id, producer |-> producer, name |-> name,
     text |-> text, children |-> children]
Property(name, text) == Node("property", None, None, Some(name), text, <<>>)
Element(tag, id, children) == Node(tag, id, None, None, None, children)
Entry(producer, children) == Node("entry", None, producer, None, None, children)
NoNode == Node("", None, None, None, None, <<>>)

HasTagName(n, tag) == n.tag = tag

(* Iterator::find: the first of the elements (given by their indices)
   satisfying the test *)
Find(seq, hits) == IF hits = {} THEN None ELSE Some(seq[Min(hits)])

(* Node::descendants(): the node itself, then its subtree in document order *)
RECURSIVE Descendants(_)
RECURSIVE DescendantsOfAll(_)
Descendants(n) == <<n>> \o DescendantsOfAll(n.children)
DescendantsOfAll(ns) ==
    IF ns = <<>> THEN <<>> ELSE Descendants(Head(ns)) \o DescendantsOfAll(Tail(ns))

EQ == "="

(* v.splitn(2, '=').last(): what follows the first '=' *)
AfterSplitn2(v) ==
    LET first == Min({i \in 1..Len(v) : v[i] = EQ}) IN SubSeq(v, first + 1, Len(v))

(* the timestamp removal of get_property_value *)
AfterSplitn2_LastPart(v) ==
    LET last == Max({i \in 1..Len(v) : v[i] = EQ}) IN SubSeq(v, last + 1, Len(v))

RemoveTimeStamp_LastPart(v) ==
    IF \E i \in 1..Len(v) : v[i] = EQ THEN AfterSplitn2_LastPart(v) ELSE v

RemoveTimeStamp(v) ==
    IF \E i \in 1..Len(v) : v[i] = EQ THEN AfterSplitn2(v) ELSE v

(* str::parse.  A number is one token; f32 values are represented by the
   token f32's Display prints for them, integers by themselves. *)
F32Values ==
    ("0" :> "0") @@ ("0.0" :> "0") @@ ("0.5" :> "0.5") @@ ("1" :> "1")
    @@ ("1.0" :> "1") @@ ("1.2" :> "1.2") @@ ("6500" :> "6500")
IntValues == ("0" :> 0) @@ ("1" :> 1) @@ ("6500" :> 6500)

ParseString(v) == Some(v)
ParseF32(v) ==
    IF Len(v) = 1 /\ v[1] \in DOMAIN F32Values THEN Some(F32Values[v[1]]) ELSE None
ParseI32(v) ==
    IF Len(v) = 1 /\ v[1] \in DOMAIN IntValues THEN Some(IntValues[v[1]]) ELSE None
ParseU32(v) ==
    IF Len(v) = 1 /\ v[1] \in DOMAIN IntValues THEN Some(IntValues[v[1]]) ELSE None

(* v.parse::<T>() *)
Parse(T, v) ==
    CASE T = "String" -> ParseString(v)
      [] T = "f32" -> ParseF32(v)
      [] T = "i32" -> ParseI32(v)
      [] T = "u32" -> ParseU32(v)

(* get_property_value::<T> *)
get_property_value(node, name, T) ==
    LET ds == Descendants(node)
        found == Find(ds, {i \in 1..Len(ds) :
                              HasTagName(ds[i], "property") /\ ds[i].name = Some(name)})
    IN IF ~IsSome(found) THEN None
       ELSE IF ~IsSome(Unwrap(found).text) THEN None
       ELSE Parse(T, RemoveTimeStamp(Unwrap(Unwrap(found).text)))

UnwrapOr(o, default) == IF IsSome(o) THEN Unwrap(o) ELSE default

Disabled_WhenPresent(value) == IsSome(get_property_value(value, "disable", "i32"))

(* disabled, as every TryFrom computes it *)
Disabled(value) == UnwrapOr(get_property_value(value, "disable", "i32"), 0) = 1

----------------------------------------------------------------------------
(* The filters of ffmpeg.rs: TryFrom<&Node> (Err is None) and
   to_filter_string *)

FilterExposure_try_from(value) ==
    IF get_property_value(value, "mlt_service", "String") # Some(<<"avfilter.exposure">>)
    THEN None
    ELSE LET exposure == get_property_value(value, "av.exposure", "f32")
             black == get_property_value(value, "av.black", "f32")
         IN IF ~IsSome(exposure) \/ ~IsSome(black) THEN None
            ELSE Some([kind |-> "FilterExposure", is_active |-> ~Disabled(value),
                       exposure |-> Unwrap(exposure), black |-> Unwrap(black)])

FilterLut_try_from(value) ==
    IF get_property_value(value, "mlt_service", "String") # Some(<<"avfilter.lut3d">>)
    THEN None
    ELSE LET file == get_property_value(value, "av.file", "String")
             interpolation == get_property_value(value, "av.interp", "String")
         IN IF ~IsSome(file) \/ ~IsSome(interpolation) THEN None
            ELSE Some([kind |-> "FilterLut", is_active |-> ~Disabled(value),
                       file |-> Unwrap(file),
                       interpolation |-> Unwrap(interpolation)])

FilterEq_try_from_Defaults(value) ==
    IF get_property_value(value, "mlt_service", "String") # Some(<<"avfilter.eq">>)
    THEN None
    ELSE Some([kind |-> "FilterEq", is_active |-> TRUE,
               contrast |-> UnwrapOr(get_property_value(value, "av.contrast", "f32"), "1"),
               brightness |-> "0", saturation |-> "1", gamma |-> "1",
               gamma_r |-> "1", gamma_g |-> "1", gamma_b |-> "1"])

FilterEq_try_from(value) ==
    IF get_property_value(value, "mlt_service", "String") # Some(<<"avfilter.eq">>)
    THEN None
    ELSE LET contrast == get_property_value(value, "av.contrast", "f32")
             brightness == get_property_value(value, "av.brightness", "f32")
             saturation == get_property_value(value, "av.saturation", "f32")
             gamma == get_property_value(value, "av.gamma", "f32")
             gamma_r == get_property_value(value, "av.gamma_r", "f32")
             gamma_g == get_property_value(value, "av.gamma_g", "f32")
             gamma_b == get_property_value(value, "av.gamma_b", "f32")
         IN IF \E o \in {contrast, brightness, saturation, gamma, gamma_r,
                         gamma_g, gamma_b} : ~IsSome(o)
            THEN None
            ELSE Some([kind |-> "FilterEq", is_active |-> ~Disabled(value),
                       contrast |-> Unwrap(contrast),
                       brightness |-> Unwrap(brightness),
                       saturation |-> Unwrap(saturation),
                       gamma |-> Unwrap(gamma), gamma_r |-> Unwrap(gamma_r),
                       gamma_g |-> Unwrap(gamma_g), gamma_b |-> Unwrap(gamma_b)])

FilterColortemp_try_from_AnyService(value) ==
    LET temperature == get_property_value(value, "av.temperature", "u32")
    IN IF ~IsSome(temperature) THEN None
       ELSE Some([kind |-> "FilterColortemp", is_active |-> ~Disabled(value),
                  temperature |-> Unwrap(temperature)])

FilterColortemp_try_from(value) ==
    IF get_property_value(value, "mlt_service", "String")
           # Some(<<"avfilter.colortemperature">>)
    THEN None
    ELSE LET temperature == get_property_value(value, "av.temperature", "u32")
         IN IF ~IsSome(temperature) THEN None
            ELSE Some([kind |-> "FilterColortemp", is_active |-> ~Disabled(value),
                       temperature |-> Unwrap(temperature)])

(* Filter::to_filter_string of each filter; a float field holds what
   Display prints for it *)
FilterExposure_to_filter_string(f) ==
    <<"exposure=exposure=", f.exposure, ":black=", f.black>>
FilterLut_to_filter_string(f) ==
    <<"lut3d=file=">> \o f.file \o <<":interp=">> \o f.interpolation
FilterEq_to_filter_string(f) ==
    <<"eq=contrast=", f.contrast, ":brightness=", f.brightness,
      ":saturation=", f.saturation, ":gamma=", f.gamma,
      ":gamma_r=", f.gamma_r, ":gamma_g=", f.gamma_g, ":gamma_b=", f.gamma_b>>
FilterColortemp_to_filter_string(f) ==
    <<"colortemperature=temperature=", ToString(f.temperature), ":pl=1">>
FilterColorBalance_to_filter_string_WithPl(f) ==
    <<"colorbalance=rs=", f.shadows_red, ":gs=", f.shadows_green,
      ":bs=", f.shadows_blue, ":rm=", f.midtones_red, ":gm=", f.midtones_green,
      ":bm=", f.midtones_blue, ":rh=", f.highlights_red,
      ":gh=", f.highlights_green, ":bh=", f.highlights_blue>>
    \o (IF f.preserve_lightness THEN <<":pl=1">> ELSE <<>>)
FilterColorBalance_to_filter_string(f) ==
    <<"colorbalance=rs=", f.shadows_red, ":gs=", f.shadows_green,
      ":bs=", f.shadows_blue, ":rm=", f.midtones_red, ":gm=", f.midtones_green,
      ":bm=", f.midtones_blue, ":rh=", f.highlights_red,
      ":gh=", f.highlights_green, ":bh=", f.highlights_blue>>
FilterCustom_to_filter_string(f) == f.expression

(* dyn Filter: the implementation of the filter's type *)
to_filter_string(f) ==
    CASE f.kind = "FilterExposure" -> FilterExposure_to_filter_string(f)
      [] f.kind = "FilterLut" -> FilterLut_to_filter_string(f)
      [] f.kind = "FilterEq" -> FilterEq_to_filter_string(f)
      [] f.kind = "FilterColortemp" -> FilterColortemp_to_filter_string(f)
      [] f.kind = "FilterColorBalance" -> FilterColorBalance_to_filter_string(f)
      [] f.kind = "FilterCustom" -> FilterCustom_to_filter_string(f)

----------------------------------------------------------------------------
(* get_filter_strings: one entry's filter_string *)

(* the parsers in the order the closure tries them; the first Ok wins *)
TryFilters(n) ==
    LET lut == FilterLut_try_from(n)
        eq == FilterEq_try_from(n)
        exposure == FilterExposure_try_from(n)
        colortemp == FilterColortemp_try_from(n)
    IN IF IsSome(lut) THEN lut
       ELSE IF IsSome(eq) THEN eq
       ELSE IF IsSome(exposure) THEN exposure
       ELSE IF IsSome(colortemp) THEN colortemp
       ELSE None

Fragment_InactiveKept(n) ==
    LET filter == TryFilters(n)
    IN IF IsSome(filter) THEN Some(to_filter_string(Unwrap(filter))) ELSE None

(* the closure given to flat_map: Option<String> *)
Fragment(n) ==
    LET filter == TryFilters(n)
    IN IF IsSome(filter) /\ Unwrap(filter).is_active
       THEN Some(to_filter_string(Unwrap(filter)))
       ELSE None

(* Iterator::flat_map over Options, collected *)
RECURSIVE FlatMapFragments(_)
FlatMapFragments(ns) ==
    IF ns = <<>> THEN <<>>
    ELSE Fragment(Head(ns)) \o FlatMapFragments(Tail(ns))

EntryFilterString(e) ==
    Join(FlatMapFragments(SelectSeq(e.children, LAMBDA n : HasTagName(n, "filter"))),
         <<COMMA>>)

(* the filter_string statement of the loop body, for one entry *)
CompileEntry ==
    /\ pc = "entry"
    /\ entry_filter_string' = Some(EntryFilterString(entry))
    /\ pc' = "joined"
    /\ UNCHANGED <<filter_strings, rewrite_vars, entry, compile_vars, property_vars,
                   filter_vars,
                   main_vars, gui_vars>>

EntryIdle ==
    /\ entry = NoNode
    /\ entry_filter_string = None

CompileIdle ==
    /\ root = NoNode
    /\ eidx = 1
    /\ lookups = <<>>

FilterIdle ==
    /\ filter_node = NoNode
    /\ tried = None
    /\ self = [kind |-> "FilterCustom", is_active |-> FALSE, expression |-> <<>>]
    /\ rendered = None

PropertyIdle ==
    /\ property_node = NoNode
    /\ property_type = "String"
    /\ property_value = None

RewriteIdle ==
    /\ xml = <<>>
    /\ delete_existing = FALSE
    /\ append_filter = None
    /\ lines = <<>>
    /\ output = <<>>
    /\ origin = <<>>
    /\ result = None
    /\ pass = 1
    /\ first_result = None

MainIdle ==
    /\ cli = [insert_into |-> None, delete_existing_filtergraph |-> FALSE]
    /\ disk = <<>>
    /\ disk_before = <<>>
    /\ mlt = None
    /\ doc = None
    /\ insert_into = None
    /\ mlt_out = None
    /\ completed = {}
    /\ failed = None

GuiIdle ==
    /\ request_tx = <<>>
    /\ response_rx = <<>>
    /\ waiting_for_image = FALSE
    /\ handling = None
    /\ gui = "running"
    /\ worker = "running"
    /\ sent = <<>>
    /\ taken = 0
    /\ answers = <<>>
    /\ consumed = 0

(* Inputs: filter elements as Kdenlive writes them, and broken ones *)
MaxFilters == 3

Stamp(v) == <<"00:00:00.000", EQ>> \o v
FilterElement(props) == Element("filter", Some("filter6"), props)

ExposureElement ==
    FilterElement(<<Property("mlt_service", Some(<<"avfilter.exposure">>)),
                    Property("kdenlive_id", Some(<<"avfilter.exposure">>)),
                    Property("av.exposure", Some(Stamp(<<"0.5">>))),
                    Property("av.black", Some(Stamp(<<"0.0">>)))>>)
DisabledExposureElement ==
    FilterElement(<<Property("mlt_service", Some(<<"avfilter.exposure">>)),
                    Property("av.exposure", Some(Stamp(<<"1">>))),
                    Property("av.black", Some(Stamp(<<"0">>))),
                    Property("disable", Some(<<"1">>))>>)
LutElement ==
    FilterElement(<<Property("mlt_service", Some(<<"avfilter.lut3d">>)),
                    Property("av.file", Some(<<"/l.cube">>)),
                    Property("av.interp", Some(<<"tetrahedral">>)),
                    Property("disable", Some(<<"0">>))>>)
EqElement ==
    FilterElement(<<Property("mlt_service", Some(<<"avfilter.eq">>)),
                    Property("av.contrast", Some(Stamp(<<"1.2">>))),
                    Property("av.brightness", Some(Stamp(<<"0">>))),
                    Property("av.saturation", Some(Stamp(<<"1">>))),
                    Property("av.gamma", Some(Stamp(<<"1">>))),
                    Property("av.gamma_r", Some(Stamp(<<"1">>))),
                    Property("av.gamma_g", Some(Stamp(<<"1">>))),
                    Property("av.gamma_b", Some(Stamp(<<"1.0">>)))>>)
ColortempElement ==
    FilterElement(<<Property("mlt_service", Some(<<"avfilter.colortemperature">>)),
                    Property("av.temperature", Some(Stamp(<<"6500">>)))>>)
(* a service this program has no filter for *)
UnknownElement ==
    FilterElement(<<Property("mlt_service", Some(<<"frei0r.lenscorrection">>)),
                    Property("av.exposure", Some(<<"1">>)),
                    Property("av.black", Some(<<"0">>))>>)
(* a known service with a required parameter missing *)
BrokenEqElement ==
    FilterElement(<<Property("mlt_service", Some(<<"avfilter.eq">>)),
                    Property("av.contrast", Some(Stamp(<<"1.2">>))),
                    Property("av.brightness", Some(Stamp(<<"0">>)))>>)
(* the other known services with a parameter that is missing, without
   text, or no number *)
BrokenExposureElement ==
    FilterElement(<<Property("mlt_service", Some(<<"avfilter.exposure">>)),
                    Property("av.exposure", Some(Stamp(<<"0.5">>))),
                    Property("av.black", Some(Stamp(<<"abc">>)))>>)
BrokenLutElement ==
    FilterElement(<<Property("mlt_service", Some(<<"avfilter.lut3d">>)),
                    Property("av.file", Some(<<"/l.cube">>))>>)
BrokenColortempElement ==
    FilterElement(<<Property("mlt_service", Some(<<"avfilter.colortemperature">>)),
                    Property("av.temperature", None)>>)
(* a child of the entry that is no filter element *)
NotAFilterElement ==
    Element("transition", None,
            <<Property("mlt_service", Some(<<"avfilter.exposure">>)),
              Property("av.exposure", Some(<<"1">>)),
              Property("av.black", Some(<<"0">>))>>)

FilterCatalog ==
    {ExposureElement, DisabledExposureElement, LutElement, EqElement,
     ColortempElement, UnknownElement, BrokenEqElement, NotAFilterElement,
     BrokenExposureElement, BrokenLutElement, BrokenColortempElement}

InitEntry ==
    /\ pc = "entry"
    /\ filter_strings = <<>>
    /\ entry \in {Entry(Some("p1"), fs) : fs \in SeqsUpTo(FilterCatalog, MaxFilters)}
    /\ entry_filter_string = None
    /\ RewriteIdle
    /\ CompileIdle
    /\ PropertyIdle
    /\ FilterIdle
    /\ MainIdle
    /\ GuiIdle

NextEntry == CompileEntry

SpecEntry == InitEntry /\ [][NextEntry]_vars

----------------------------------------------------------------------------
(* get_property_value on its own *)

(* Inputs: the text of a property.  roxmltree gives a property without
   content no text at all, so a text is absent or not empty. *)
MaxTextLen == 5
TextTokens == {"00:00:00.000", EQ, "1", "abc"}
PropertyTexts ==
    {None} \cup {Some(t) : t \in SeqsUpTo(TextTokens, MaxTextLen) \ {<<>>}}
PropertyNode(text) ==
    FilterElement(<<Property("kdenlive_id", Some(<<"abc">>)),
                    Property("av.exposure", text)>>)

GetPropertyValue ==
    /\ pc = "property"
    /\ property_value' =
           Some(get_property_value(property_node, "av.exposure", property_type))
    /\ pc' = "parsed"
    /\ UNCHANGED <<property_node, property_type, filter_strings, rewrite_vars,
                   entry_vars, compile_vars, filter_vars,
                   main_vars, gui_vars>>

InitProperty ==
    /\ pc = "property"
    /\ property_node \in {PropertyNode(t) : t \in PropertyTexts}
    /\ property_type \in {"String", "f32", "i32", "u32"}
    /\ property_value = None
    /\ filter_strings = <<>>
    /\ RewriteIdle
    /\ CompileIdle
    /\ EntryIdle
    /\ FilterIdle
    /\ MainIdle
    /\ GuiIdle

NextProperty == GetPropertyValue

SpecProperty == InitProperty /\ [][NextProperty]_vars

----------------------------------------------------------------------------
(* The four TryFrom<&Node> on their own *)

(* Inputs: a filter element made of an mlt_service property (or none), the
   parameters of one kind, whole or with one of them damaged, and a
   disable property (or none) *)
ServiceIds ==
    {"avfilter.exposure", "avfilter.lut3d", "avfilter.eq", "avfilter.colortemperature"}
ServiceChoices ==
    {<<>>, <<Property("mlt_service", None)>>,
     <<Property("mlt_service", Some(<<"frei0r.lenscorrection">>))>>}
    \cup {<<Property("mlt_service", Some(<<s>>))>> : s \in ServiceIds}
    \cup {<<Property("mlt_service", Some(Stamp(<<s>>)))>> : s \in ServiceIds}

ExposureParams ==
    <<Property("av.exposure", Some(Stamp(<<"0.5">>))),
      Property("av.black", Some(Stamp(<<"0">>)))>>
LutParams ==
    <<Property("av.file", Some(<<"/l.cube">>)),
      Property("av.interp", Some(<<"tetrahedral">>))>>
EqParams ==
    <<Property("av.contrast", Some(Stamp(<<"1.2">>))),
      Property("av.brightness", Some(Stamp(<<"0">>))),
      Property("av.saturation", Some(Stamp(<<"1">>))),
      Property("av.gamma", Some(Stamp(<<"1">>))),
      Property("av.gamma_r", Some(Stamp(<<"1">>))),
      Property("av.gamma_g", Some(Stamp(<<"1">>))),
      Property("av.gamma_b", Some(Stamp(<<"1.0">>)))>>
ColortempParams == <<Property("av.temperature", Some(Stamp(<<"6500">>)))>>

(* params with the i-th one left out, without text, or with a text that is
   no number *)
Damaged(params, i, how) ==
    CASE how = "missing" ->
             SubSeq(params, 1, i - 1) \o SubSeq(params, i + 1, Len(params))
      [] how = "empty" ->
             [params EXCEPT ![i] = Property(Unwrap(params[i].name), None)]
      [] how = "unparseable" ->
             [params EXCEPT ![i] = Property(Unwrap(params[i].name), Some(<<"abc">>))]
ParamChoices ==
    UNION {{params} \cup {Damaged(params, i, how) :
                             i \in 1..Len(params),
                             how \in {"missing", "empty", "unparseable"}} :
           params \in {ExposureParams, LutParams, EqParams, ColortempParams}}
DisableChoices ==
    {<<>>} \cup {<<Property("disable", t)>> :
                    t \in {None, Some(<<"1">>), Some(<<"0">>), Some(<<"abc">>),
                           Some(<<"6500">>), Some(Stamp(<<"1">>)), Some(Stamp(<<"0">>))}}
(* elements that carry the parameters of all four variants, some with a
   second mlt_service property *)
MixedNodes ==
    {FilterElement(s \o s2 \o LutParams \o EqParams \o ExposureParams
                   \o ColortempParams \o d) :
        s \in ServiceChoices,
        s2 \in {<<>>} \cup {<<Property("mlt_service", Some(<<i>>))>> : i \in ServiceIds},
        d \in {<<>>, <<Property("disable", Some(<<"1">>))>>}}
FilterNodes ==
    {FilterElement(s \o ps \o d) :
        s \in ServiceChoices, ps \in ParamChoices, d \in DisableChoices}
    \cup MixedNodes

(* the four conversions the closure of get_filter_strings attempts *)
TryInto ==
    /\ pc = "filter"
    /\ tried' = Some([FilterLut |-> FilterLut_try_from(filter_node),
                      FilterEq |-> FilterEq_try_from(filter_node),
                      FilterExposure |-> FilterExposure_try_from(filter_node),
                      FilterColortemp |-> FilterColortemp_try_from(filter_node)])
    /\ pc' = "tried"
    /\ UNCHANGED <<filter_node, self, rendered, filter_strings, rewrite_vars,
                   entry_vars, compile_vars, property_vars,
                   main_vars, gui_vars>>

InitFilter ==
    /\ pc = "filter"
    /\ filter_node \in FilterNodes
    /\ tried = None
    /\ self = [kind |-> "FilterCustom", is_active |-> FALSE, expression |-> <<>>]
    /\ rendered = None
    /\ filter_strings = <<>>
    /\ RewriteIdle
    /\ CompileIdle
    /\ EntryIdle
    /\ PropertyIdle
    /\ MainIdle
    /\ GuiIdle

NextFilter == TryInto

SpecFilter == InitFilter /\ [][NextFilter]_vars

----------------------------------------------------------------------------
(* to_filter_string on its own *)

(* Inputs: filters of the six kinds, active or not *)
FloatChoices == {"0", "0.5", "1.2"}
FilterStructs ==
    {[kind |-> "FilterExposure", is_active |-> a, exposure |-> e, black |-> b] :
        a \in BOOLEAN, e \in FloatChoices, b \in FloatChoices}
    \cup {[kind |-> "FilterLut", is_active |-> a, file |-> f, interpolation |-> i] :
             a \in BOOLEAN, f \in {<<>>, <<"/l.cube">>},
             i \in {<<"tetrahedral">>, <<"trilinear">>}}
    \cup {[kind |-> "FilterEq", is_active |-> a, contrast |-> p[1],
           brightness |-> p[2], saturation |-> p[3], gamma |-> p[4],
           gamma_r |-> p[5], gamma_g |-> p[6], gamma_b |-> p[7]] :
             a \in BOOLEAN, p \in [1..7 -> {"1", "1.2"}]}
    \cup {[kind |-> "FilterColortemp", is_active |-> a, temperature |-> t] :
             a \in BOOLEAN, t \in {0, 1, 6500}}
    \cup {[kind |-> "FilterColorBalance", is_active |-> a, shadows_red |-> p[1],
           shadows_green |-> p[2], shadows_blue |-> p[3], midtones_red |-> p[4],
           midtones_green |-> p[5], midtones_blue |-> p[6],
           highlights_red |-> p[7], highlights_green |-> p[8],
           highlights_blue |-> p[9], preserve_lightness |-> l] :
             a \in BOOLEAN, l \in BOOLEAN, p \in [1..9 -> {"0", "0.5"}]}
    \cup {[kind |-> "FilterCustom", is_active |-> a, expression |-> x] :
             a \in BOOLEAN, x \in {<<>>, <<"hue=s=0">>, <<"hue=s=0", COMMA, "negate">>}}

ToFilterString ==
    /\ pc = "render"
    /\ rendered' = Some(to_filter_string(self))
    /\ pc' = "rendered"
    /\ UNCHANGED <<self, filter_node, tried, filter_strings, rewrite_vars,
                   entry_vars, compile_vars, property_vars,
                   main_vars, gui_vars>>

InitRender ==
    /\ pc = "render"
    /\ self \in FilterStructs
    /\ rendered = None
    /\ filter_node = NoNode
    /\ tried = None
    /\ filter_strings = <<>>
    /\ RewriteIdle
    /\ CompileIdle
    /\ EntryIdle
    /\ PropertyIdle
    /\ MainIdle
    /\ GuiIdle

NextRender == ToFilterString

SpecRender == InitRender /\ [][NextRender]_vars

----------------------------------------------------------------------------
(* add_filtergraph_to_producers *)

PatFiltergraph == <<NAMEQ, "filtergraph", QUOTE>>
PatOriginalurl == <<POPEN, NAMEQ, "kdenlive:originalurl">>
PatResource == <<POPEN, NAMEQ, "resource">>

(* re_property.captures(line)?.name(value).  The pattern is POPEN NAMEQ,
   anything, QUOTE GT, the value (anything), PCLOSE.  The leftmost start is
   taken; the first wildcard is greedy (it ends at the last QUOTE GT that a
   PCLOSE still follows) and so is the value (it ends at the last PCLOSE). *)
CaptureValue(line) ==
    LET n == Len(line)
        starts == {i \in 1..(n - 1) : line[i] = POPEN /\ line[i + 1] = NAMEQ}
        quotes == {j \in 1..(n - 1) : line[j] = QUOTE /\ line[j + 1] = GT}
        closes == {k \in 1..n : line[k] = PCLOSE}
        Ends(i) == {j \in quotes : i + 2 <= j /\ \E k \in closes : j + 2 <= k}
        matching == {i \in starts : Ends(i) # {}}
    IN IF matching = {} THEN None
       ELSE LET i == Min(matching)
                j == Max(Ends(i))
                k == Max({c \in closes : j + 2 <= c})
            IN Some(SubSeq(line, j + 2, k - 1))

(* the line given to output.push(format!(...)) *)
FiltergraphLine(filter_string) ==
    <<"  ", POPEN, NAMEQ, "filtergraph", QUOTE, GT>> \o filter_string \o <<PCLOSE>>

IsDropped_FlagIgnored(line, del) == FALSE

(* the `continue` of the loop *)
IsDropped(line, del) == del /\ Contains(line, PatFiltergraph)

IsMatched_ResourceOnly(line, fs) ==
    /\ Contains(line, PatResource)
    /\ LET url == CaptureValue(line)
       IN IsSome(url) /\ Unwrap(url) \in DOMAIN fs

(* the conditions under which the loop body pushes a filtergraph line *)
IsMatched(line, fs) ==
    /\ Contains(line, PatOriginalurl) \/ Contains(line, PatResource)
    /\ LET url == CaptureValue(line)
       IN IsSome(url) /\ Unwrap(url) \in DOMAIN fs

AppendedFilterString_NoComma(line, fs, app) ==
    LET filter_string == fs[Unwrap(CaptureValue(line))]
    IN IF IsSome(app) THEN filter_string \o Unwrap(app)
       ELSE filter_string

(* filter_string after the optional push_str(",{append_filter}") *)
AppendedFilterString(line, fs, app) ==
    LET filter_string == fs[Unwrap(CaptureValue(line))]
    IN IF IsSome(app) THEN filter_string \o <<COMMA>> \o Unwrap(app)
       ELSE filter_string

LoopBody_LineFirst(line, i, fs, del, app) ==
    IF IsDropped(line, del) THEN <<>>
    ELSE IF IsMatched(line, fs)
         THEN << <<line, i>>,
                 <<FiltergraphLine(AppendedFilterString(line, fs, app)), 0>> >>
         ELSE << <<line, i>> >>

LoopBody_LineReplaced(line, i, fs, del, app) ==
    IF IsDropped(line, del) THEN <<>>
    ELSE IF IsMatched(line, fs)
         THEN << <<FiltergraphLine(AppendedFilterString(line, fs, app)), 0>> >>
         ELSE << <<line, i>> >>

LoopBody_InsertOnlyWhenDeleting(line, i, fs, del, app) ==
    IF IsDropped(line, del) THEN <<>>
    ELSE IF del /\ IsMatched(line, fs)
         THEN << <<FiltergraphLine(AppendedFilterString(line, fs, app)), 0>>,
                 <<line, i>> >>
         ELSE << <<line, i>> >>

(* what one iteration of the loop pushes: a sequence of <<line, origin>> *)
LoopBody(line, i, fs, del, app) ==
    IF IsDropped(line, del) THEN <<>>
    ELSE IF IsMatched(line, fs)
         THEN << <<FiltergraphLine(AppendedFilterString(line, fs, app)), 0>>,
                 <<line, i>> >>
         ELSE << <<line, i>> >>

(* the whole loop: everything pushed for lines i.. of ls *)
RECURSIVE Loop(_, _, _, _, _)
Loop(ls, i, fs, del, app) ==
    IF i > Len(ls) THEN <<>>
    ELSE LoopBody(ls[i], i, fs, del, app) \o Loop(ls, i + 1, fs, del, app)

(* one call of add_filtergraph_to_producers *)
AddFiltergraphToProducers ==
    /\ pc = "rewrite"
    /\ \E ls \in {Lines(xml)} :
       \E pushed \in {Loop(ls, 1, filter_strings, delete_existing, append_filter)} :
       \E out \in {Collect([p \in 1..Len(pushed) |-> pushed[p][1]])} :
          /\ lines' = ls
          /\ output' = out
          /\ origin' = [p \in 1..Len(pushed) |-> pushed[p][2]]
          /\ result' = Some(Join(out, <<LF>>))
    /\ pc' = "done"
    /\ UNCHANGED <<xml, filter_strings, delete_existing, append_filter, pass,
                   first_result, entry_vars, compile_vars, property_vars, filter_vars,
                   main_vars, gui_vars>>

(* The caller runs the function again on its own result, with the same map
   and flags. *)
Rerun ==
    /\ pc = "done"
    /\ pass = 1
    /\ delete_existing
    /\ first_result' = result
    /\ xml' = Unwrap(result)
    /\ result' = None
    /\ pass' = 2
    /\ pc' = "rewrite"
    /\ UNCHANGED <<filter_strings, delete_existing, append_filter, lines, output,
                   origin, entry_vars, compile_vars,
                   property_vars, filter_vars,
                   main_vars, gui_vars>>

(* a property line of a document *)
PropertyLine(name, value) ==
    <<"  ", POPEN, NAMEQ>> \o name \o <<QUOTE, GT>> \o value \o <<PCLOSE>>
----------------------------------------------------------------------------
(* get_filter_strings and get_url_from_producer *)

(* root.first_child().unwrap() *)
FirstChild(r) == r.children[1]

(* the entries the loop visits: the entry children of the playlist children
   of the root's first child, flat_map keeping document order *)
RECURSIVE FlatMapEntries(_)
FlatMapEntries(playlists) ==
    IF playlists = <<>> THEN <<>>
    ELSE SelectSeq(Head(playlists).children, LAMBDA n : HasTagName(n, "entry"))
         \o FlatMapEntries(Tail(playlists))
Entries(r) ==
    FlatMapEntries(SelectSeq(FirstChild(r).children,
                             LAMBDA n : HasTagName(n, "playlist")))

IsProducerOrChain(n) == HasTagName(n, "producer") \/ HasTagName(n, "chain")

(* the text get_url_from_producer takes from the found element: the first
   kdenlive:originalurl property child, or else the first resource one *)
UrlOfProperties_ResourceFirst(producer_properties) ==
    LET byName(name) == Find(producer_properties,
                             {i \in 1..Len(producer_properties) :
                                 producer_properties[i].name = Some(name)})
        found == IF IsSome(byName("resource")) THEN byName("resource")
                 ELSE byName("kdenlive:originalurl")
    IN IF IsSome(found) THEN Unwrap(found).text ELSE None

UrlOfProperties(producer_properties) ==
    LET byName(name) == Find(producer_properties,
                             {i \in 1..Len(producer_properties) :
                                 producer_properties[i].name = Some(name)})
        found == IF IsSome(byName("kdenlive:originalurl"))
                 THEN byName("kdenlive:originalurl")
                 ELSE byName("resource")
    IN IF IsSome(found) THEN Unwrap(found).text ELSE None

(* get_url_from_producer: [panicked, url].  find visits the children in
   order and unwraps the id attribute of every producer or chain it tests,
   so one without an id that comes before the match panics. *)
get_url_from_producer(r, producer) ==
    LET ch == FirstChild(r).children
        matches == {i \in 1..Len(ch) :
                      IsProducerOrChain(ch[i]) /\ ch[i].id = Some(producer)}
        noId == {i \in 1..Len(ch) : IsProducerOrChain(ch[i]) /\ ch[i].id = None}
    IN IF noId # {} /\ (matches = {} \/ Min(noId) < Min(matches))
       THEN [panicked |-> TRUE, url |-> None]
       ELSE IF matches = {} THEN [panicked |-> FALSE, url |-> None]
       ELSE [panicked |-> FALSE,
             url |-> UrlOfProperties(
                         SelectSeq(ch[Min(matches)].children,
                                   LAMBDA n : HasTagName(n, "property")))]

Insert_KeepFirst(map, key, value) ==
    [k \in DOMAIN map \cup {key} |-> IF k \in DOMAIN map THEN map[k] ELSE value]

(* HashMap::insert *)
Insert(map, key, value) ==
    [k \in DOMAIN map \cup {key} |-> IF k = key THEN value ELSE map[k]]

(* whether the loop body looks the producer up for this filter_string *)
NeedsUrl_Always(fstr) == TRUE

NeedsUrl(fstr) == fstr # <<>>

(* one iteration of the loop of get_filter_strings *)
ProcessEntry ==
    /\ pc = "compile"
    /\ eidx <= Len(Entries(root))
    /\ LET e == Entries(root)[eidx]
           fstr == EntryFilterString(e)
           looked == get_url_from_producer(root, Unwrap(e.producer))
       IN IF ~IsSome(e.producer)
          THEN \* entry.attribute("producer").unwrap()
               /\ pc' = "panicked"
               /\ UNCHANGED <<filter_strings, lookups>>
          ELSE IF ~NeedsUrl(fstr)
          THEN UNCHANGED <<pc, filter_strings, lookups>>
          ELSE /\ lookups' = Append(lookups,
                                    [entry |-> eidx, producer |-> Unwrap(e.producer),
                                     url |-> looked.url,
                                     panicked |-> looked.panicked])
               /\ IF looked.panicked \/ ~IsSome(looked.url)
                  THEN \* the unwrap of the id, or of the returned Option
                       /\ pc' = "panicked"
                       /\ UNCHANGED filter_strings
                  ELSE /\ filter_strings' =
                              Insert(filter_strings, Unwrap(looked.url), fstr)
                       /\ UNCHANGED pc
    /\ eidx' = IF pc' = "panicked" THEN eidx ELSE eidx + 1
    /\ UNCHANGED <<root, rewrite_vars, entry_vars, property_vars, filter_vars,
                   main_vars, gui_vars>>

----------------------------------------------------------------------------
(* The text of a parsed document, one element tag or property per line as
   Kdenlive writes it.  Each line comes with the index of the child of the
   root element it belongs to (0: none).  Parsing unescapes character
   references, so the text holds the escaped form of what the tree holds. *)
AMP == "/c&d.mp4"
XmlEscape(text) == [i \in 1..Len(text) |-> IF text[i] = AMP THEN "/c&amp;d.mp4" ELSE text[i]]

AttributeText(name, value) ==
    IF IsSome(value) THEN <<" ", name, "=", QUOTE, Unwrap(value), QUOTE>> ELSE <<>>

RECURSIVE NodeLines(_)
RECURSIVE NodesLines(_)
NodeLines(n) ==
    IF HasTagName(n, "property")
    THEN IF IsSome(n.text)
         THEN <<PropertyLine(<<Unwrap(n.name)>>, XmlEscape(Unwrap(n.text)))>>
         ELSE << <<"  ", POPEN, NAMEQ, Unwrap(n.name), QUOTE, "/>">> >>
    ELSE << <<" ", "<", n.tag>> \o AttributeText("id", n.id)
            \o AttributeText("producer", n.producer) \o <<GT>> >>
         \o NodesLines(n.children)
         \o << <<" ", "</", n.tag, GT>> >>
NodesLines(ns) ==
    IF ns = <<>> THEN <<>> ELSE NodeLines(Head(ns)) \o NodesLines(Tail(ns))

WithOwner(nl, k) == Collect([i \in 1..Len(nl) |-> [text |-> nl[i], owner |-> k]])
RECURSIVE OwnedLines(_, _)
OwnedLines(ch, k) ==
    IF k > Len(ch) THEN <<>>
    ELSE WithOwner(NodeLines(ch[k]), k) \o OwnedLines(ch, k + 1)

DocLines(r) ==
    << [text |-> <<"<?xml version=", QUOTE, "1.0", QUOTE, "?>">>, owner |-> 0],
       [text |-> <<"<mlt", GT>>, owner |-> 0] >>
    \o OwnedLines(FirstChild(r).children, 1)
    \o << [text |-> <<"</mlt", GT>>, owner |-> 0] >>

LineTexts(dl) == Collect([i \in 1..Len(dl) |-> dl[i].text])
DocText(r) == Join(LineTexts(DocLines(r)), <<LF>>) \o <<LF>>

(* get_filter_strings returns its map; main passes the text it read and
   the command line's flag on to add_filtergraph_to_producers *)
GetFilterStringsReturn ==
    /\ pc = "compile"
    /\ eidx > Len(Entries(root))
    /\ pc' = "rewrite"
    /\ xml' = DocText(root)
    /\ delete_existing' \in BOOLEAN
    /\ UNCHANGED <<filter_strings, root, eidx, lookups, append_filter, lines, output,
                   origin, result, pass, first_result, entry_vars, property_vars,
                   filter_vars,
                   main_vars, gui_vars>>

----------------------------------------------------------------------------
(* Inputs: documents *)
MaxProducers == 2
MaxEntries == 2

InjSeqsUpTo(S, n) ==
    {q \in SeqsUpTo(S, n) : \A i, j \in 1..Len(q) : i # j => q[i] # q[j]}

Url1 == <<"/a.mp4">>
Url2 == <<"/b.mp4">>
UrlAmp == <<AMP>>
UrlProxy == <<"/proxy/a.mkv">>

ProducerCatalog ==
    { \* the clip's url twice, as resource and as original url
      Element("producer", Some("p1"),
              <<Property("resource", Some(Url1)),
                Property("kdenlive:originalurl", Some(Url1))>>),
      \* a chain, resource only, with a character that XML escapes
      Element("chain", Some("p1"), <<Property("resource", Some(UrlAmp))>>),
      \* a proxied clip that already carries a filtergraph
      Element("producer", Some("p2"),
              <<Property("resource", Some(UrlProxy)),
                Property("filtergraph", Some(<<"old">>)),
                Property("kdenlive:originalurl", Some(Url2))>>),
      \* neither property
      Element("producer", Some("p2"), <<Property("length", Some(<<"100">>))>>),
      \* not a producer
      Element("tractor", Some("p1"), <<Property("resource", Some(Url2))>>),
      \* an original url without text
      Element("chain", Some("p2"),
              <<Property("kdenlive:originalurl", None),
                Property("resource", Some(Url1))>>),
      \* no id attribute
      Element("producer", None, <<Property("resource", Some(Url1))>>) }

EntryCatalog ==
    { Entry(Some("p1"), <<ExposureElement>>),
      Entry(Some("p2"), <<LutElement, UnknownElement, BrokenEqElement,
                          DisabledExposureElement, ColortempElement>>),
      Entry(Some("p1"), <<DisabledExposureElement>>),
      Entry(Some("p1"), <<EqElement>>),
      Entry(Some("p2"), <<>>),
      Entry(Some("p3"), <<BrokenEqElement, BrokenExposureElement, BrokenLutElement,
                          BrokenColortempElement>>),
      Entry(None, <<DisabledExposureElement>>) }

(* producers first, then two playlists: the first entry, and the others *)
Document(ps, es) ==
    Element("", None,
            << Element("mlt", None,
                       ps \o << Element("playlist", Some("playlist0"),
                                        IF es = <<>> THEN <<>> ELSE <<Head(es)>>),
                                Element("playlist", Some("playlist1"),
                                        IF es = <<>> THEN <<>> ELSE Tail(es)) >>) >>)

Documents ==
    {Document(ps, es) : ps \in InjSeqsUpTo(ProducerCatalog, MaxProducers),
                        es \in InjSeqsUpTo(EntryCatalog, MaxEntries)}

(* the converter has read and parsed its input and calls get_filter_strings;
   DocText(root) is the text it read *)
Init ==
    /\ pc = "compile"
    /\ root \in Documents
    /\ filter_strings = <<>>
    /\ eidx = 1
    /\ lookups = <<>>
    /\ RewriteIdle
    /\ EntryIdle
    /\ PropertyIdle
    /\ FilterIdle
    /\ MainIdle
    /\ GuiIdle

Next == ProcessEntry \/ GetFilterStringsReturn \/ AddFiltergraphToProducers

Spec == Init /\ [][Next]_vars

----------------------------------------------------------------------------
(* Inputs of the rewriter *)
MaxLines == 3


LineCatalog ==
    { PropertyLine(<<"resource">>, Url1),
      PropertyLine(<<"kdenlive:originalurl">>, Url2),
      PropertyLine(<<"filtergraph">>, <<"old">>),
      <<" ", "<producer id=", QUOTE, "p", QUOTE, GT>>,
      <<>>,
      \* two declarations on one line
      PropertyLine(<<"filtergraph">>, <<"old">>) \o PropertyLine(<<"resource">>, Url1) }

Eols == {<<LF>>, <<CR, LF>>}

TextOf(ls, eol, final) == Join(ls, eol) \o (IF final /\ ls # <<>> THEN eol ELSE <<>>)

Texts == {TextOf(ls, eol, final) :
            ls \in SeqsUpTo(LineCatalog, MaxLines), eol \in Eols, final \in BOOLEAN}

MapChoices ==
    { (Url1 :> <<"eq=contrast=", "1">>),
      (Url1 :> <<"eq=contrast=", "1">>) @@ (Url2 :> <<"lut3d=file=", "l.cube">>) }

AppendChoices == {None, Some(<<"scale=", "1">>)}

InitRewrite ==
    /\ pc = "rewrite"
    /\ xml \in Texts
    /\ filter_strings \in MapChoices
    /\ delete_existing \in BOOLEAN
    /\ append_filter \in AppendChoices
    /\ lines = <<>>
    /\ output = <<>>
    /\ origin = <<>>
    /\ result = None
    /\ pass = 1
    /\ first_result = None
    /\ EntryIdle
    /\ PropertyIdle
    /\ FilterIdle
    /\ MainIdle
    /\ GuiIdle
    /\ CompileIdle

NextRewrite == AddFiltergraphToProducers \/ Rerun

SpecRewrite == InitRewrite /\ [][NextRewrite]_vars

----------------------------------------------------------------------------
(* The converter: main of src/bin/kdenlive-filter-converter.rs.  A Result is
   an Option here: Some(v) for Ok(v), None for Err. *)

(* the paths of the command line *)
InputPath == "input"
OutputPath == "output"
InsertIntoPath == "insert_into"
Paths == {InputPath, OutputPath, InsertIntoPath}

(* file contents, by what the steps of main make of them *)
File(text) == [text |-> text, rewritten |-> None]
Project == File("a project")
ProjectNoProducer == File("a project with an entry that names no producer")
NotXml == File("not XML")
OldOutput == File("an earlier output")
Truncated == File("")

Clis == [insert_into : {None, Some(InsertIntoPath)},
         delete_existing_filtergraph : BOOLEAN]

Disks ==
    {d \in [Paths -> {None, Some(Project), Some(ProjectNoProducer), Some(NotXml),
                      Some(OldOutput)}] :
        /\ d[InputPath] # Some(OldOutput)
        /\ d[InsertIntoPath] \in {None, Some(Project), Some(NotXml)}
        /\ d[OutputPath] \in {None, Some(OldOutput)}}

(* std::fs::read_to_string: Err for a file that is absent or unreadable *)
read_to_string(d, path) == d[path]

(* Document::parse *)
Document_parse(text) == IF text = NotXml THEN None ELSE Some(text)

(* get_filter_strings unwraps the producer attribute of every entry *)
GetFilterStringsPanics(d) == d = ProjectNoProducer

(* the map get_filter_strings returns for the project *)
GetFilterStringsOf(d) == (<<"/a.mp4">> :> <<"eq=contrast=", "1">>)

(* the ? operator: where main goes on after a step that returned res *)
Question(res, next) == IF IsSome(res) THEN next ELSE "main_err"

(* the match on the optional read of the insert_into file *)
InsertInto_FallBack(read, text) ==
    IF IsSome(read) /\ IsSome(Unwrap(read)) THEN Unwrap(read) ELSE Some(text)

InsertInto(read, text) ==
    IF ~IsSome(read) THEN Some(text)
    ELSE IF IsSome(Unwrap(read)) THEN Unwrap(read)
    ELSE None

(* a step of main that returned res *)
Step(name, res, next) ==
    /\ pc' = Question(res, next)
    /\ completed' = IF IsSome(res) THEN completed \cup {name} ELSE completed
    /\ failed' = IF IsSome(res) THEN failed ELSE Some(name)

InitLogging ==
    /\ pc = "main"
    /\ \E res \in {None, Some("logger")} : Step("init_logging", res, "main_read")
    /\ UNCHANGED <<cli, disk, disk_before, mlt, doc, insert_into, mlt_out,
                   filter_strings, rewrite_vars, entry_vars, compile_vars,
                   property_vars, filter_vars, gui_vars>>

ReadInput ==
    /\ pc = "main_read"
    /\ mlt' = read_to_string(disk, InputPath)
    /\ Step("read", mlt', "main_parse")
    /\ UNCHANGED <<cli, disk, disk_before, doc, insert_into, mlt_out,
                   filter_strings, rewrite_vars, entry_vars, compile_vars,
                   property_vars, filter_vars, gui_vars>>

ParseInput ==
    /\ pc = "main_parse"
    /\ doc' = Document_parse(Unwrap(mlt))
    /\ Step("parse", doc', "main_compile")
    /\ UNCHANGED <<cli, disk, disk_before, mlt, insert_into, mlt_out,
                   filter_strings, rewrite_vars, entry_vars, compile_vars,
                   property_vars, filter_vars, gui_vars>>

CompileMap ==
    /\ pc = "main_compile"
    /\ IF GetFilterStringsPanics(Unwrap(doc))
       THEN /\ pc' = "main_panicked"
            /\ failed' = Some("compile")
            /\ UNCHANGED <<filter_strings, completed>>
       ELSE /\ filter_strings' = GetFilterStringsOf(Unwrap(doc))
            /\ completed' = completed \cup {"compile"}
            /\ pc' = "main_insert_into"
            /\ UNCHANGED failed
    /\ UNCHANGED <<cli, disk, disk_before, mlt, doc, insert_into, mlt_out,
                   rewrite_vars, entry_vars, compile_vars, property_vars,
                   filter_vars, gui_vars>>

ReadInsertInto ==
    /\ pc = "main_insert_into"
    /\ LET read == IF IsSome(cli.insert_into)
                   THEN Some(read_to_string(disk, Unwrap(cli.insert_into)))
                   ELSE None
       IN /\ insert_into' = InsertInto(read, Unwrap(mlt))
          /\ pc' = Question(insert_into', "main_rewrite")
          /\ IF read = Some(None)
             THEN failed' = Some("insert_into") /\ UNCHANGED completed
             ELSE completed' = completed \cup {"insert_into"} /\ UNCHANGED failed
    /\ UNCHANGED <<cli, disk, disk_before, mlt, doc, mlt_out,
                   filter_strings, rewrite_vars, entry_vars, compile_vars,
                   property_vars, filter_vars, gui_vars>>

RewriteText ==
    /\ pc = "main_rewrite"
    /\ mlt_out' = Some([text |-> Unwrap(insert_into).text,
                        rewritten |->
                            Some([filter_strings |-> filter_strings,
                                  delete_existing |->
                                      cli.delete_existing_filtergraph])])
    /\ completed' = completed \cup {"rewrite"}
    /\ pc' = "main_write"
    /\ UNCHANGED <<cli, disk, disk_before, mlt, doc, insert_into, failed,
                   filter_strings, rewrite_vars, entry_vars, compile_vars,
                   property_vars, filter_vars, gui_vars>>

(* std::fs::write creates or truncates the file, then writes the contents *)
WriteOutput ==
    /\ pc = "main_write"
    /\ \E outcome \in {"written", "create failed", "write failed"} :
          /\ disk' = IF outcome = "written"
                     THEN [disk EXCEPT ![OutputPath] = mlt_out]
                     ELSE IF outcome = "write failed"
                     THEN [disk EXCEPT ![OutputPath] = Some(Truncated)]
                     ELSE disk
          /\ Step("write", IF outcome = "written" THEN Some(outcome) ELSE None,
                  "main_ok")
    /\ UNCHANGED <<cli, disk_before, mlt, doc, insert_into, mlt_out,
                   filter_strings, rewrite_vars, entry_vars, compile_vars,
                   property_vars, filter_vars, gui_vars>>

InitMain ==
    /\ pc = "main"
    /\ cli \in Clis
    /\ disk \in Disks
    /\ disk_before = disk
    /\ mlt = None
    /\ doc = None
    /\ insert_into = None
    /\ mlt_out = None
    /\ completed = {}
    /\ failed = None
    /\ filter_strings = <<>>
    /\ RewriteIdle
    /\ CompileIdle
    /\ EntryIdle
    /\ PropertyIdle
    /\ FilterIdle
    /\ GuiIdle

NextMain ==
    \/ InitLogging
    \/ ReadInput
    \/ ParseInput
    \/ CompileMap
    \/ ReadInsertInto
    \/ RewriteText
    \/ WriteOutput

SpecMain == InitMain /\ [][NextMain]_vars

----------------------------------------------------------------------------
(* The GUI and its worker thread: ColorustApp::update and Thread::run, joined
   by the two flume::unbounded channels main creates. *)

(* the most messages a channel holds in the model, and the most requests
   the GUI sends in a run *)
MaxQueue == 2
MaxRequests == 3

Requests == {"ExtractFrame", "Play"}
Responses == {"Image", "Error"}

(* Sender::send(..).unwrap(): the message is queued, or the sender panics
   when the receiving thread is gone *)
Send(queue, msg) == Append(queue, msg)

(* handle_events: what try_recv gives, and the flag after the match *)
TryRecv(queue) == IF queue = <<>> THEN None ELSE Some(Head(queue))

WaitingAfterEvents(received, waiting) ==
    IF received = Some("Image") THEN FALSE ELSE waiting

(* one frame: handle_events, then draw_side_panel with at most one button
   clicked *)
Update ==
    /\ pc = "gui"
    /\ gui = "running"
    /\ \E clicked \in {"none", "Create preview", "Play preview"} :
       LET received == TryRecv(response_rx)
           waiting == WaitingAfterEvents(received, waiting_for_image)
           request == IF clicked = "Create preview" THEN "ExtractFrame" ELSE "Play"
       IN /\ response_rx' = IF IsSome(received) THEN Tail(response_rx)
                            ELSE response_rx
          /\ consumed' = IF IsSome(received) THEN consumed + 1 ELSE consumed
          /\ IF clicked = "none"
             THEN /\ waiting_for_image' = waiting
                  /\ UNCHANGED <<request_tx, gui, sent>>
             ELSE IF worker = "panicked"
             THEN /\ gui' = "panicked"
                  /\ waiting_for_image' = waiting
                  /\ UNCHANGED <<request_tx, sent>>
             ELSE /\ Len(request_tx) < MaxQueue
                  /\ Len(sent) < MaxRequests
                  /\ request_tx' = Send(request_tx, request)
                  /\ sent' = Append(sent, request)
                  /\ waiting_for_image' =
                        IF clicked = "Create preview" THEN TRUE ELSE waiting
                  /\ UNCHANGED gui
    /\ UNCHANGED <<pc, handling, worker, taken, answers, filter_strings, rewrite_vars, entry_vars,
                   compile_vars, property_vars, filter_vars, main_vars>>

(* Thread::run: request_rx.recv() returns the oldest request *)
WorkerRecv ==
    /\ pc = "gui"
    /\ worker = "running"
    /\ handling = None
    /\ request_tx # <<>>
    /\ handling' = Some(Head(request_tx))
    /\ request_tx' = Tail(request_tx)
    /\ taken' = taken + 1
    /\ UNCHANGED <<pc, response_rx, waiting_for_image, gui, worker, sent, answers,
                   consumed, filter_strings,
                   rewrite_vars, entry_vars, compile_vars, property_vars,
                   filter_vars, main_vars>>

(* Thread::run: the match arm returns; only ExtractFrame sends a Response *)
WorkerFinish ==
    /\ pc = "gui"
    /\ worker = "running"
    /\ IsSome(handling)
    /\ IF Unwrap(handling) = "ExtractFrame"
       THEN /\ Len(response_rx) < MaxQueue
            /\ \E response \in Responses :
                  /\ response_rx' = Send(response_rx, response)
                  /\ answers' = Append(answers, [request |-> taken,
                                                  response |-> response])
       ELSE UNCHANGED <<response_rx, answers>>
    /\ handling' = None
    /\ UNCHANGED <<pc, request_tx, waiting_for_image, gui, worker, sent, taken,
                   consumed, filter_strings,
                   rewrite_vars, entry_vars, compile_vars, property_vars,
                   filter_vars, main_vars>>

(* Thread::run: an unwrap() of the match arm panics (the command cannot be
   run, the image cannot be opened or decoded); the thread ends and its
   Receiver is dropped with the requests it holds *)
WorkerPanic ==
    /\ pc = "gui"
    /\ worker = "running"
    /\ IsSome(handling)
    /\ worker' = "panicked"
    /\ handling' = None
    /\ request_tx' = <<>>
    /\ UNCHANGED <<pc, response_rx, waiting_for_image, gui, sent, taken, answers,
                   consumed, filter_strings,
                   rewrite_vars, entry_vars, compile_vars, property_vars,
                   filter_vars, main_vars>>

InitGui ==
    /\ pc = "gui"
    /\ GuiIdle
    /\ filter_strings = <<>>
    /\ RewriteIdle
    /\ CompileIdle
    /\ EntryIdle
    /\ PropertyIdle
    /\ FilterIdle
    /\ MainIdle

NextGui == Update \/ WorkerRecv \/ WorkerFinish \/ WorkerPanic

SpecGui == InitGui /\ [][NextGui]_vars

----------------------------------------------------------------------------
(* Properties of add_filtergraph_to_producers *)

Returned == pc = "done"

(* input lines the run copies to the output *)
KeptIdx == {i \in 1..Len(lines) : ~IsDropped(lines[i], delete_existing)}
(* input lines at which the run's insertion condition holds *)
MatchedIdx == {i \in 1..Len(lines) : IsMatched(lines[i], filter_strings)}
(* the line the run inserts for input line i *)
NewLineFor(i) ==
    FiltergraphLine(AppendedFilterString(lines[i], filter_strings, append_filter))
(* output positions: the copy of input line i; the inserted lines *)
CopyOf(i) == {p \in 1..Len(output) : origin[p] = i}
InsertedPos == {p \in 1..Len(output) : origin[p] = 0}

(* C2, as stated: every input line whose declared originalurl/resource
   value is a key of the map is in the output, and the new filtergraph line
   is the output line right after it. *)
C2_NewLineAfterMatched ==
    Returned =>
        \A i \in MatchedIdx :
            \E p \in CopyOf(i) :
                /\ p + 1 \in InsertedPos
                /\ output[p + 1] = NewLineFor(i)

(* C2, amended: every input line that is not dropped and at which the
   insertion condition holds is in the output, and the new filtergraph line
   is the output line right before it. *)
C2_NewLineBeforeMatched ==
    Returned =>
        \A i \in MatchedIdx \cap KeptIdx :
            \E p \in CopyOf(i) :
                /\ p - 1 \in InsertedPos
                /\ output[p - 1] = NewLineFor(i)

C2_Witness ==
    /\ Returned
    /\ \E i \in MatchedIdx \cap KeptIdx : i > 1 /\ i < Len(lines)

(* C3: the output without its inserted lines is the sequence of the input
   lines that were not dropped, each once, unchanged and in input order;
   every other output line is a newly built filtergraph line; the returned
   text is the output lines joined by LF. *)
C3_KeptLinesPreserved ==
    Returned =>
        LET copied == SelectSeq(origin, LAMBDA o : o # 0)
        IN /\ Len(origin) = Len(output)
           /\ \A a, b \in 1..Len(copied) : a < b => copied[a] < copied[b]
           /\ {copied[a] : a \in 1..Len(copied)} = KeptIdx
           /\ \A p \in 1..Len(output) :
                  origin[p] # 0 => output[p] = lines[origin[p]]
           /\ \A p \in InsertedPos :
                  \E i \in MatchedIdx : output[p] = NewLineFor(i)
           /\ result = Some(Join(output, <<LF>>))

C3_Witness ==
    /\ Returned
    /\ InsertedPos # {}
    /\ Cardinality(KeptIdx) >= 2
    /\ Cardinality(KeptIdx) < Len(lines)

(* C4: running the function on its own result, with the same map and
   flags and delete_existing = true, returns that result again. *)
C4_Idempotent ==
    (Returned /\ pass = 2) => result = first_result

(* C5: with delete_existing = true, no input line that contains
   name="filtergraph" is copied to the output, and every output line that
   contains it was inserted by this run. *)
C5_NoExistingFiltergraph ==
    (Returned /\ delete_existing) =>
        /\ \A i \in 1..Len(lines) :
               Contains(lines[i], PatFiltergraph) => CopyOf(i) = {}
        /\ \A p \in 1..Len(output) :
               Contains(output[p], PatFiltergraph) => p \in InsertedPos

C5_Witness ==
    /\ Returned
    /\ delete_existing
    /\ pass = 1
    /\ \E i \in 1..Len(lines) : Contains(lines[i], PatFiltergraph)
    /\ InsertedPos # {}

(* whether the loop body inserts a line at input line i when run with the
   given delete_existing *)
WouldInsertAt(i, del) ==
    \E q \in 1..Len(LoopBody(lines[i], i, filter_strings, del, append_filter)) :
        LoopBody(lines[i], i, filter_strings, del, append_filter)[q][2] = 0
(* whether this run inserted a line at input line i *)
InsertedAt(i) == \E p \in InsertedPos : p + 1 \in CopyOf(i)

NoLineDropped ==
    /\ SelectSeq(origin, LAMBDA o : o # 0) = [i \in 1..Len(lines) |-> i]
    /\ \A p \in 1..Len(output) : origin[p] # 0 => output[p] = lines[origin[p]]

(* C6, as stated: with delete_existing = false every input line is copied
   unchanged, and a line is inserted at an input line exactly when one
   would be with delete_existing = true. *)
C6_InsertionIndependentOfDelete ==
    (Returned /\ ~delete_existing) =>
        /\ NoLineDropped
        /\ \A i \in 1..Len(lines) : InsertedAt(i) <=> WouldInsertAt(i, TRUE)

(* C6, amended: ... exactly when one would be with delete_existing = true,
   for every input line that does not itself contain name="filtergraph"
   (such a line is dropped before the insertion rule when delete_existing
   is true). *)
C6_InsertionIndependentUnlessDropped ==
    (Returned /\ ~delete_existing) =>
        /\ NoLineDropped
        /\ \A i \in 1..Len(lines) :
               ~Contains(lines[i], PatFiltergraph) =>
                   (InsertedAt(i) <=> WouldInsertAt(i, TRUE))

C6_Witness ==
    /\ Returned
    /\ ~delete_existing
    /\ \E i \in 1..Len(lines) : Contains(lines[i], PatFiltergraph)
    /\ \E i \in 1..Len(lines) :
           ~Contains(lines[i], PatFiltergraph) /\ InsertedAt(i)

----------------------------------------------------------------------------
(* Properties of get_filter_strings: one entry's filter string *)

(* what the four parsers make of a node *)
ParsedAs(n) ==
    {Unwrap(o) : o \in {x \in {FilterLut_try_from(n), FilterEq_try_from(n),
                               FilterExposure_try_from(n),
                               FilterColortemp_try_from(n)} : IsSome(x)}}
(* the direct-child filter elements of e that are recognized and active *)
Contributing(e) ==
    {i \in 1..Len(e.children) :
        /\ e.children[i].tag = "filter"
        /\ \E f \in ParsedAs(e.children[i]) : f.is_active}
Rendering(n) == to_filter_string(CHOOSE f \in ParsedAs(n) : TRUE)
(* the renderings of the children with index in S, in index order, with one
   comma between neighbours *)
RECURSIVE RenderedInOrder(_, _)
RenderedInOrder(e, S) ==
    IF S = {} THEN <<>>
    ELSE Rendering(e.children[Min(S)])
         \o (IF S \ {Min(S)} = {} THEN <<>>
             ELSE <<COMMA>> \o RenderedInOrder(e, S \ {Min(S)}))

(* C7: an entry's compiled filter string is the renderings of exactly its
   recognized and active direct-child filter elements, in document order,
   separated by single commas. *)
C7_EntryStringInOrder ==
    pc = "joined" =>
        entry_filter_string = Some(RenderedInOrder(entry, Contributing(entry)))

C7_Witness ==
    /\ pc = "joined"
    /\ \E i, j, k \in 1..Len(entry.children) :
           /\ i < j /\ j < k
           /\ i \in Contributing(entry) /\ k \in Contributing(entry)
           /\ j \notin Contributing(entry)
           /\ ParsedAs(entry.children[j]) # {}
           /\ Rendering(entry.children[i]) # Rendering(entry.children[k])

----------------------------------------------------------------------------
(* Properties of get_filter_strings and of the conversion as a whole *)

(* get_filter_strings has just returned its map *)
Compiled == pc = "rewrite"

(* the media identity of a producer element: the text of its first
   kdenlive:originalurl property if it has one, else of its first resource
   property, else none *)
PropertiesNamed(n, name) ==
    {i \in 1..Len(n.children) :
        n.children[i].tag = "property" /\ n.children[i].name = Some(name)}
MediaIdentityOf(n) ==
    IF PropertiesNamed(n, "kdenlive:originalurl") # {}
    THEN n.children[Min(PropertiesNamed(n, "kdenlive:originalurl"))].text
    ELSE IF PropertiesNamed(n, "resource") # {}
    THEN n.children[Min(PropertiesNamed(n, "resource"))].text
    ELSE None
(* the children of the root's first child that are producers or chains
   with the given id *)
ProducersWithId(r, id) ==
    {k \in 1..Len(r.children[1].children) :
        /\ r.children[1].children[k].tag \in {"producer", "chain"}
        /\ r.children[1].children[k].id = Some(id)}
(* the media identity an entry's producer reference resolves to *)
IdentityOfReference(r, id) ==
    IF ProducersWithId(r, id) = {} THEN None
    ELSE MediaIdentityOf(r.children[1].children[Min(ProducersWithId(r, id))])

(* entries (by index) with at least one active recognized filter *)
FilteredEntries ==
    {e \in 1..Len(Entries(root)) : Contributing(Entries(root)[e]) # {}}
IdentityOfEntry(e) == IdentityOfReference(root, Unwrap(Entries(root)[e].producer))

(* C8: the keys of the returned map are exactly the media identities of the
   entries with at least one active recognized filter; when these
   identities are pairwise distinct there are as many keys as such
   entries, and the value for an entry with a single active recognized
   filter is that filter's rendering. *)
C8_KeysAreFilteredIdentities ==
    Compiled =>
        \A es \in {Entries(root)} :
        \A F \in {{e \in 1..Len(es) : Contributing(es[e]) # {}}} :
        \A id \in {[e \in F |-> IdentityOfReference(root, Unwrap(es[e].producer))]} :
            /\ DOMAIN filter_strings = {Unwrap(id[e]) : e \in F}
            /\ (\A d, e \in F : d # e => id[d] # id[e])
               => /\ Cardinality(DOMAIN filter_strings) = Cardinality(F)
                  /\ \A e \in F :
                         \A i \in Contributing(es[e]) :
                             Contributing(es[e]) = {i}
                             => filter_strings[Unwrap(id[e])]
                                    = Rendering(es[e].children[i])

C8_Witness ==
    /\ Compiled
    /\ Cardinality(FilteredEntries) = 2
    /\ Cardinality(DOMAIN filter_strings) = 2

(* C9: an entry with a non-empty filter string whose producer reference
   matches no producer or chain, or matches one with neither a
   kdenlive:originalurl nor a resource property, does not make
   get_filter_strings abort. *)
C9_UnresolvedEntrySkipped ==
    \A e \in 1..Len(Entries(root)) :
        ( /\ IsSome(Entries(root)[e].producer)
          /\ EntryFilterString(Entries(root)[e]) # <<>>
          /\ \A k \in ProducersWithId(root, Unwrap(Entries(root)[e].producer)) :
                 k = Min(ProducersWithId(root, Unwrap(Entries(root)[e].producer)))
                 => /\ PropertiesNamed(root.children[1].children[k],
                                       "kdenlive:originalurl") = {}
                    /\ PropertiesNamed(root.children[1].children[k], "resource") = {} )
        => ~(pc = "panicked" /\ eidx = e)

(* C10: every url get_url_from_producer returns is the media identity of
   the first producer or chain whose id is the one looked up: its
   kdenlive:originalurl text if it has that property, its resource text
   only if it has not. *)
C10_UrlIsMediaIdentity ==
    \A k \in 1..Len(lookups) :
        ~lookups[k].panicked
        => lookups[k].url = IdentityOfReference(root, lookups[k].producer)

C10_Witness ==
    \E k \in 1..Len(lookups) :
        /\ lookups[k].url = Some(Url2)
        /\ Cardinality(ProducersWithId(root, lookups[k].producer)) = 2

(* the child of the root element an output line belongs to: that of the
   input line it copies, or of the line an inserted line is put before *)
OutputOwner(dl, p) ==
    IF origin[p] # 0 THEN dl[origin[p]].owner ELSE dl[origin[p + 1]].owner

(* C1: after a conversion with delete_existing = true, each producer or
   chain whose media identity is a key of the map has exactly one
   filtergraph property line in the output, and every other one has none. *)
C1_OneFiltergraphPerProducer ==
    (pc = "done" /\ delete_existing) =>
        \A dl \in {DocLines(root)} :
        \A k \in 1..Len(root.children[1].children) :
            root.children[1].children[k].tag \in {"producer", "chain"}
            => Cardinality({p \in 1..Len(output) :
                               /\ Contains(output[p], PatFiltergraph)
                               /\ OutputOwner(dl, p) = k})
               = IF /\ IsSome(MediaIdentityOf(root.children[1].children[k]))
                    /\ Unwrap(MediaIdentityOf(root.children[1].children[k]))
                           \in DOMAIN filter_strings
                 THEN 1 ELSE 0

(* the entries (by index) with a non-empty compiled string that resolve to
   the media identity u *)
EntriesWithIdentity(u) ==
    {e \in FilteredEntries : IdentityOfEntry(e) = Some(u)}
CompiledString(e) == RenderedInOrder(Entries(root)[e], Contributing(Entries(root)[e]))

(* C11: the value the returned map holds for a media identity is the
   compiled string of the last entry, in document order, that has a
   non-empty string and resolves to that identity; strings of several
   entries are never merged. *)
C11_LaterEntryOverwrites ==
    Compiled =>
        \A F \in {[e \in FilteredEntries |-> IdentityOfEntry(e)]} :
        \A u \in DOMAIN filter_strings :
            filter_strings[u] = CompiledString(Max({e \in DOMAIN F : F[e] = Some(u)}))

C11_Witness ==
    /\ Compiled
    /\ \E u \in DOMAIN filter_strings :
           /\ Cardinality(EntriesWithIdentity(u)) = 2
           /\ \A d, e \in EntriesWithIdentity(u) :
                  d # e => CompiledString(d) # CompiledString(e)

----------------------------------------------------------------------------
(* Properties of get_property_value *)

(* get_property_value has returned *)
Parsed == pc = "parsed"
(* the text of the property the call looked up, and the positions of its
   '=' characters *)
PropertyText == property_node.children[2].text
EqPositions(t) == {i \in 1..Len(t) : t[i] = EQ}
(* the property holding the text v; one without content has no text *)
BareProperty(v) == PropertyNode(IF v = <<>> THEN None ELSE Some(v))
(* what parsing the text v as the type T gives *)
ParsedAsType(T, v) ==
    CASE T = "String" -> Some(v)
      [] T = "f32" -> IF Len(v) = 1 /\ v[1] \in DOMAIN F32Values
                      THEN Some(F32Values[v[1]]) ELSE None
      [] T \in {"i32", "u32"} -> IF Len(v) = 1 /\ v[1] \in DOMAIN IntValues
                                 THEN Some(IntValues[v[1]]) ELSE None

(* C12: a property text T=v, with no '=' in T and none in v, gives the same
   result as the property text v, for every target type. *)
C12_StampedParsesAsBare ==
    (Parsed /\ IsSome(PropertyText)) =>
        \A i \in EqPositions(Unwrap(PropertyText)) :
            EqPositions(Unwrap(PropertyText)) = {i}
            => Unwrap(property_value)
                   = get_property_value(
                         BareProperty(SubSeq(Unwrap(PropertyText), i + 1,
                                             Len(Unwrap(PropertyText)))),
                         "av.exposure", property_type)

(* C13: the value parsed from a text with one or more '=' is the part that
   follows the last '='; a text without '=' is parsed whole. *)
C13_ValueFollowsLastEq ==
    (Parsed /\ IsSome(PropertyText)) =>
        \A t \in {Unwrap(PropertyText)} :
            Unwrap(property_value)
                = ParsedAsType(property_type,
                               IF EqPositions(t) = {} THEN t
                               ELSE SubSeq(t, Max(EqPositions(t)) + 1, Len(t)))

(* C13, amended: the value parsed from a text with one or more '=' is the
   part that follows the first '='; a text without '=' is parsed whole. *)
C13_ValueFollowsFirstEq ==
    (Parsed /\ IsSome(PropertyText)) =>
        \A t \in {Unwrap(PropertyText)} :
            Unwrap(property_value)
                = ParsedAsType(property_type,
                               IF EqPositions(t) = {} THEN t
                               ELSE SubSeq(t, Min(EqPositions(t)) + 1, Len(t)))

C13_Witness ==
    /\ Parsed
    /\ IsSome(PropertyText)
    /\ Cardinality(EqPositions(Unwrap(PropertyText))) = 2
    /\ property_type = "String"
    /\ property_value = Some(Some(<<"abc", EQ, "1">>))

----------------------------------------------------------------------------
(* Properties of the four TryFrom<&Node> *)

Tried == pc = "tried"
Variants == {"FilterLut", "FilterEq", "FilterExposure", "FilterColortemp"}
(* the text of the first property child of n with the given name (None
   when there is no such child or it has no text) *)
TextOfProperty(n, name) ==
    IF PropertiesNamed(n, name) = {} THEN None
    ELSE n.children[Min(PropertiesNamed(n, name))].text
(* a text without what precedes its first '=' *)
Stripped(t) ==
    IF EqPositions(t) = {} THEN t ELSE SubSeq(t, Min(EqPositions(t)) + 1, Len(t))

(* C14: a successfully parsed filter of any of the four kinds is inactive
   exactly when the element's disable property, after timestamp
   stripping, is 1; it is active when disable is absent, unparseable or
   any other value. *)
C14_InactiveIffDisableIsOne ==
    Tried =>
        \A v \in Variants :
            IsSome(Unwrap(tried)[v])
            => (Unwrap(Unwrap(tried)[v]).is_active
                = ~( /\ IsSome(TextOfProperty(filter_node, "disable"))
                     /\ Stripped(Unwrap(TextOfProperty(filter_node, "disable")))
                            = <<"1">> ))

C14_Witness ==
    /\ Tried
    /\ IsSome(Unwrap(tried)["FilterColortemp"])
    /\ ~Unwrap(Unwrap(tried)["FilterColortemp"]).is_active
    /\ TextOfProperty(filter_node, "disable") = Some(Stamp(<<"1">>))

ServiceIdOf(v) ==
    CASE v = "FilterLut" -> "avfilter.lut3d"
      [] v = "FilterEq" -> "avfilter.eq"
      [] v = "FilterExposure" -> "avfilter.exposure"
      [] v = "FilterColortemp" -> "avfilter.colortemperature"

(* C15: a filter of a variant is constructed only from an element whose
   mlt_service property text is exactly that variant's service
   identifier. *)
C15_ServiceTextIsIdentifier ==
    Tried =>
        \A v \in Variants :
            IsSome(Unwrap(tried)[v])
            => TextOfProperty(filter_node, "mlt_service") = Some(<<ServiceIdOf(v)>>)

----------------------------------------------------------------------------
(* Properties of get_filter_strings: filters that fail to parse *)

(* the required parameters of a variant, each with its type *)
RequiredParams(v) ==
    CASE v = "FilterExposure" -> {<<"av.exposure", "f32">>, <<"av.black", "f32">>}
      [] v = "FilterLut" -> {<<"av.file", "String">>, <<"av.interp", "String">>}
      [] v = "FilterEq" ->
             {<<n, "f32">> : n \in {"av.contrast", "av.brightness", "av.saturation",
                                    "av.gamma", "av.gamma_r", "av.gamma_g",
                                    "av.gamma_b"}}
      [] v = "FilterColortemp" -> {<<"av.temperature", "u32">>}
(* the parameter p of the element n is present and parses to its type *)
ParamOk(n, p) ==
    /\ IsSome(TextOfProperty(n, p[1]))
    /\ IsSome(ParsedAsType(p[2], Stripped(Unwrap(TextOfProperty(n, p[1])))))
ServiceMatches(n, v) ==
    /\ IsSome(TextOfProperty(n, "mlt_service"))
    /\ Stripped(Unwrap(TextOfProperty(n, "mlt_service"))) = <<ServiceIdOf(v)>>
(* the element's service matches a variant, but a required parameter of
   that variant is missing or does not parse *)
Broken(n) ==
    \E v \in Variants : ServiceMatches(n, v) /\ \E p \in RequiredParams(v) : ~ParamOk(n, p)
WellFormed(n) ==
    \E v \in Variants : ServiceMatches(n, v) /\ \A p \in RequiredParams(v) : ParamOk(n, p)
NotDisabled(n) ==
    ~( /\ IsSome(TextOfProperty(n, "disable"))
       /\ Stripped(Unwrap(TextOfProperty(n, "disable"))) = <<"1">> )
(* the filter children of the entry e that are well-formed and active *)
WellFormedActive(e) ==
    {i \in 1..Len(e.children) :
        /\ e.children[i].tag = "filter"
        /\ WellFormed(e.children[i])
        /\ NotDisabled(e.children[i])}

(* C16: a filter element whose service matches a variant but that lacks a
   required parameter, or has one that does not parse, produces no filter:
   the strings of the returned map are made of the well-formed active
   filters only, and get_filter_strings never aborts at an entry that has
   no well-formed active filter (and names a producer). *)
C16_BrokenFilterSkipped ==
    /\ pc = "panicked" =>
           \A e \in {eidx} :
               IsSome(Entries(root)[e].producer)
               => WellFormedActive(Entries(root)[e]) # {}
    /\ Compiled =>
           \A es \in {Entries(root)} :
           \A u \in DOMAIN filter_strings :
           \A last \in {Max({e \in 1..Len(es) :
                               /\ WellFormedActive(es[e]) # {}
                               /\ IdentityOfReference(root, Unwrap(es[e].producer))
                                      = Some(u)})} :
               filter_strings[u] = RenderedInOrder(es[last], WellFormedActive(es[last]))

C16_Witness ==
    /\ Compiled
    /\ \E d, e \in 1..Len(Entries(root)) :
           /\ d < e
           /\ \A i \in 1..Len(Entries(root)[d].children) : Broken(Entries(root)[d].children[i])
           /\ Len(Entries(root)[d].children) > 1
           /\ \E i, j \in 1..Len(Entries(root)[e].children) :
                  /\ i < j
                  /\ Broken(Entries(root)[e].children[i])
                  /\ j \in WellFormedActive(Entries(root)[e])
           /\ IdentityOfEntry(e) \in {Some(u) : u \in DOMAIN filter_strings}

----------------------------------------------------------------------------
(* Properties of to_filter_string *)

(* the pinned string of each kind, made of the filter's parameters only *)
PinnedString(f) ==
    CASE f.kind = "FilterExposure" ->
             <<"exposure=exposure=", f.exposure, ":black=", f.black>>
      [] f.kind = "FilterLut" ->
             <<"lut3d=file=">> \o f.file \o <<":interp=">> \o f.interpolation
      [] f.kind = "FilterEq" ->
             <<"eq=contrast=", f.contrast, ":brightness=", f.brightness,
               ":saturation=", f.saturation, ":gamma=", f.gamma,
               ":gamma_r=", f.gamma_r, ":gamma_g=", f.gamma_g,
               ":gamma_b=", f.gamma_b>>
      [] f.kind = "FilterColortemp" ->
             <<"colortemperature=temperature=", ToString(f.temperature), ":pl=1">>
      [] f.kind = "FilterColorBalance" ->
             <<"colorbalance=rs=", f.shadows_red, ":gs=", f.shadows_green,
               ":bs=", f.shadows_blue, ":rm=", f.midtones_red,
               ":gm=", f.midtones_green, ":bm=", f.midtones_blue,
               ":rh=", f.highlights_red, ":gh=", f.highlights_green,
               ":bh=", f.highlights_blue>>
      [] f.kind = "FilterCustom" -> f.expression

(* C17: to_filter_string returns the pinned string of the filter's kind,
   with the keys in their fixed order and all of them present; the string
   is determined by the parameters alone (not by is_active, nor, for
   ColorBalance, by preserve_lightness), and Custom returns its expression
   unchanged. *)
C17_RenderingIsPinned ==
    pc = "rendered" => rendered = Some(PinnedString(self))

C17_Witness ==
    /\ pc = "rendered"
    /\ self.kind = "FilterColorBalance"
    /\ self.preserve_lightness
    /\ ~self.is_active
    /\ self.shadows_red # self.shadows_green
    /\ IsSome(rendered)

----------------------------------------------------------------------------
(* Properties of the converter's main *)

(* the steps the output is built from *)
BuildSteps == {"read", "parse", "compile", "insert_into", "rewrite"}

(* C18: the output file differs from what it was when main started only once
   reading the input, parsing it, compiling the map, reading the optional
   insert_into file and rewriting have all completed; and once one of these
   steps has failed, main has ended with an error (an Err returned, or a
   panic) and the output file is what it was when main started. *)
C18_OutputWrittenLast ==
    /\ disk # disk_before => BuildSteps \subseteq completed
    /\ \A step \in BuildSteps :
          failed = Some(step) =>
             /\ pc \in {"main_err", "main_panicked"}
             /\ disk = disk_before

C18_Witness ==
    /\ pc = "main_ok"
    /\ IsSome(cli.insert_into)
    /\ disk_before[OutputPath] = Some(OldOutput)
    /\ disk[OutputPath] = mlt_out
    /\ BuildSteps \subseteq completed

----------------------------------------------------------------------------
(* Properties of the GUI and its worker thread *)

(* the requests sent and not yet handled to the end *)
InFlight == Len(request_tx) + Len(handling)

(* C19: at any moment at most one request that the GUI has sent is queued or
   being handled by the worker. *)
C19_AtMostOneInFlight == InFlight <= 1

----------------------------------------------------------------------------
(* Properties of add_filtergraph_to_producers: append_filter *)

(* what follows the map's string in an inserted line *)
Suffix == IF IsSome(append_filter) THEN <<COMMA>> \o Unwrap(append_filter) ELSE <<>>

(* the input line an inserted line is pushed for: the one copied next *)
LineOfInserted(p) == lines[origin[p + 1]]

(* every inserted line holds the map's string for the identity its input
   line declares, followed by the suffix *)
InsertedValues ==
    \A p \in InsertedPos :
       /\ p < Len(output)
       /\ origin[p + 1] # 0
       /\ \E url \in {CaptureValue(LineOfInserted(p))} :
             /\ IsSome(url)
             /\ Unwrap(url) \in DOMAIN filter_strings
             /\ output[p] = <<"  ", POPEN, NAMEQ, "filtergraph", QUOTE, GT>>
                            \o filter_strings[Unwrap(url)] \o Suffix
                            \o <<PCLOSE>>

(* where lines are inserted, and every other output line, are those of the
   same call without append_filter *)
OtherLinesAsWithoutAppend ==
    \E base \in {Loop(lines, 1, filter_strings, delete_existing, None)} :
       /\ Len(base) = Len(output)
       /\ \A p \in 1..Len(output) :
             /\ origin[p] = base[p][2]
             /\ origin[p] # 0 => output[p] = base[p][1]

(* C20: a call of add_filtergraph_to_producers leaves the map as it was,
   every filtergraph line it inserted has as value the map's string for the
   identity of its line, followed by ',' and a when append_filter is Some(a)
   and by nothing when it is None, and the other lines of the output are
   those of the call without append_filter. *)
C20_AppendFilter ==
    [][pc = "rewrite" /\ pc' = "done" =>
          /\ filter_strings' = filter_strings
          /\ InsertedValues'
          /\ OtherLinesAsWithoutAppend']_vars

C20_Witness ==
    /\ Returned
    /\ IsSome(append_filter)
    /\ InsertedPos # {}
    /\ \E p \in 1..Len(output) : origin[p] # 0

----------------------------------------------------------------------------
(* Properties of get_filter_strings: the order in which the parsers are tried *)

SourceOrder == <<"FilterLut", "FilterEq", "FilterExposure", "FilterColortemp">>

(* every order in which the four parsers can be tried *)
TrialOrders == {o \in [1..4 -> Variants] : \A v \in Variants : \E i \in 1..4 : o[i] = v}

(* the first success among the results t, taken in the given order *)
FirstIn(order, t) ==
    LET hits == {i \in 1..4 : IsSome(t[order[i]])}
    IN IF hits = {} THEN None ELSE t[order[Min(hits)]]

(* C21: of the four parsers at most one succeeds on a filter element, the
   closure takes the first success in the order Lut, Eq, Exposure,
   Colortemp, and the first success in any other order is the same filter. *)
C21_TrialOrderIrrelevant ==
    Tried =>
        \A t \in {Unwrap(tried)} :
            /\ Cardinality({v \in Variants : IsSome(t[v])}) <= 1
            /\ TryFilters(filter_node) = FirstIn(SourceOrder, t)
            /\ Len(Fragment(filter_node)) <= 1
            /\ \A o \in TrialOrders : FirstIn(o, t) = FirstIn(SourceOrder, t)

C21_Witness ==
    /\ Tried
    /\ IsSome(Unwrap(tried)["FilterColortemp"])
    /\ \A v \in Variants : \A p \in RequiredParams(v) : ParamOk(filter_node, p)
    /\ Cardinality(PropertiesNamed(filter_node, "mlt_service")) = 2

----------------------------------------------------------------------------
(* Properties of FilterLut::try_from *)

Interpolations == {<<"nearest">>, <<"trilinear">>, <<"tetrahedral">>}

(* C22: every FilterLut constructed from an element has an interpolation
   among nearest, trilinear and tetrahedral; an element whose av.interp is
   another string gives no FilterLut and no fragment. *)
C22_InterpolationIsEnumerated ==
    Tried =>
        /\ IsSome(Unwrap(tried)["FilterLut"])
           => Unwrap(Unwrap(tried)["FilterLut"]).interpolation \in Interpolations
        /\ ( /\ ServiceMatches(filter_node, "FilterLut")
             /\ IsSome(TextOfProperty(filter_node, "av.interp"))
             /\ Stripped(Unwrap(TextOfProperty(filter_node, "av.interp")))
                    \notin Interpolations )
           => /\ ~IsSome(Unwrap(tried)["FilterLut"])
              /\ Fragment(filter_node) = None

----------------------------------------------------------------------------
(* Properties of add_filtergraph_to_producers: how many lines are inserted *)

(* input lines the run drops *)
DroppedIdx ==
    {i \in 1..Len(lines) : delete_existing /\ Contains(lines[i], PatFiltergraph)}

(* input line i declares a kdenlive:originalurl or resource property whose
   captured value is a key of the map *)
DeclaresKey(i) ==
    /\ \/ Contains(lines[i], PatOriginalurl)
       \/ Contains(lines[i], PatResource)
    /\ \E url \in {CaptureValue(lines[i])} :
          IsSome(url) /\ Unwrap(url) \in DOMAIN filter_strings

(* the inserted lines pushed for input line i: those right before its copy *)
InsertedFor(i) == {p \in InsertedPos : p + 1 \in CopyOf(i)}

(* C23: exactly one filtergraph line is inserted for every input line that
   is not dropped, declares kdenlive:originalurl or resource and captures a
   key of the map, and none anywhere else; so the output has as many lines
   as the input, minus the dropped ones, plus the matching ones, and two
   declaring lines of one producer get a line each. *)
C23_OneLinePerMatchingLine ==
    Returned =>
        \E matching \in {{i \in 1..Len(lines) \ DroppedIdx : DeclaresKey(i)}} :
            /\ \A i \in matching : Cardinality(InsertedFor(i)) = 1
            /\ InsertedPos = UNION {InsertedFor(i) : i \in matching}
            /\ Len(output) = Len(lines) - Cardinality(DroppedIdx)
                                 + Cardinality(matching)

C23_Witness ==
    /\ Returned
    /\ DroppedIdx # {}
    /\ \E i, j \in 1..Len(lines) \ DroppedIdx :
          /\ j = i + 1
          /\ DeclaresKey(i) /\ Contains(lines[i], PatResource)
          /\ DeclaresKey(j) /\ Contains(lines[j], PatOriginalurl)
          /\ Cardinality(InsertedFor(i) \cup InsertedFor(j)) = 2

----------------------------------------------------------------------------
(* Properties of get_filter_strings: entries without an active filter *)

(* the entry the loop is at *)
AtEntry == pc = "compile" /\ eidx <= Len(Entries(root))

(* C24: an iteration of the loop for an entry that has no active
   recognized filter looks no producer up, leaves the map as it is and does
   not fail, whatever its producer reference is. *)
C24_EmptyEntryIsInert ==
    [][AtEntry /\ WellFormedActive(Entries(root)[eidx]) = {}
          => /\ filter_strings' = filter_strings
             /\ lookups' = lookups
             /\ pc' # "panicked"]_vars

----------------------------------------------------------------------------
(* Properties of get_filter_strings: completion *)

(* C25: get_filter_strings completes for every parsed document: it never
   aborts at an entry, also when an entry has no producer attribute or a
   producer or chain element has no id attribute. *)
C25_AlwaysReturnsAMap == pc # "panicked"

----------------------------------------------------------------------------
(* Properties of the GUI and its worker thread: waiting_for_image and the
   responses *)

(* the step sends an ExtractFrame request *)
SendsExtractFrame ==
    /\ Len(sent') = Len(sent) + 1
    /\ sent'[Len(sent')] = "ExtractFrame"

(* C26: once handle_events has consumed the response to an ExtractFrame
   request, be it an Image or an Error, waiting_for_image is false (unless
   the same frame sends a new ExtractFrame request). *)
C26_ConsumedResponseEndsWaiting ==
    [][consumed' = consumed + 1 /\ ~SendsExtractFrame => ~waiting_for_image']_vars

(* the ExtractFrame requests sent so far, as indices of sent *)
ExtractFramesSent == {k \in 1..Len(sent) : sent[k] = "ExtractFrame"}

(* C27: waiting_for_image is true whenever an ExtractFrame request has been
   sent whose response handle_events has not consumed yet. *)
C27_WaitingWhileResponseOutstanding ==
    Cardinality(ExtractFramesSent) > consumed => waiting_for_image

(* the requests the worker is through with *)
HandledRequests == 1..(IF IsSome(handling) THEN taken - 1 ELSE taken)

AnswersTo(k) == {a \in 1..Len(answers) : answers[a].request = k}

(* C28: the worker handles one request at a time, in the order sent; it has
   sent exactly one response for every ExtractFrame request it is through
   with and none for any other request, and the responses are in the order
   of their requests. *)
C28_OneResponsePerExtractFrame ==
    /\ taken <= Len(sent)
    /\ IsSome(handling) => Unwrap(handling) = sent[taken]
    /\ \A k \in 1..Len(sent) :
          Cardinality(AnswersTo(k)) =
             IF k \in HandledRequests /\ sent[k] = "ExtractFrame" THEN 1 ELSE 0
    /\ \A a, b \in 1..Len(answers) :
          a < b => answers[a].request < answers[b].request
====
